---- MODULE Spec2Model ----
(***************************************************************************)
(* Model of crates/engine/src/vm_function.rs: VMFunction, its two          *)
(* variants (Internal, External), Function::eval and the calling           *)
(* convention push_args / pop_results.                                     *)
(*                                                                         *)
(* The module instance behind Weak<RefCell<VMModule>> is modelled by its   *)
(* strong count, its RefCell borrow flag and its operand stack.  The       *)
(* interpreter (call_internal_function, do_loop) and the operand stack     *)
(* (push_values, pop_values) live outside vm_function.rs; they are         *)
(* modelled from the design document, over a four-instruction body         *)
(* language (const, local, call, unreachable).                             *)
(***************************************************************************)
EXTENDS Integers, Sequences, FiniteSets, TLC

\* ---- bounds of the model ----
MaxArgs == 3      \* longest argument list the host passes
MaxStack == 1     \* the host starts a call only while every stack is this shallow
MaxDepth == 6     \* evals nested in one another before the call stack is exhausted

\* capacity of a call frame's locals region in the interpreter
MaxLocals == 4

Modules == {1, 2}
Values == {1, 2}
\* those that can own (hold an Rc of) a module instance
Owners == {"registry", "host"}
ArgLists == UNION {[1..n -> Values] : n \in 0..MaxArgs}

\* FunctionType { params, results }: two ordered lists of value types
FunctionType(np, nr) ==
    [params |-> [i \in 1..np |-> "i32"], results |-> [i \in 1..nr |-> "i32"]]

\* ---- instructions of a function body ----
Const(v) == [op |-> "const", v |-> v, f |-> ""]
Local(i) == [op |-> "local", v |-> i, f |-> ""]
Call(f) == [op |-> "call", v |-> 0, f |-> f]
Unreachable == [op |-> "trap", v |-> 0, f |-> ""]

\* ---- VMFunction and its constructors ----
new_internal_function(function_type, local_groups, expression, vm_module) ==
    [function_type |-> function_type,
     function_item |-> [tag |-> "Internal", local_groups |-> local_groups,
                        expression |-> expression, vm_module |-> vm_module,
                        r |-> ""]]

new_external_function(function_type, r) ==
    [function_type |-> function_type,
     function_item |-> [tag |-> "External", local_groups |-> 0,
                        expression |-> <<>>, vm_module |-> 0, r |-> r]]

\* The function values of the two module instances.  Module 1 defines the
\* plain functions; module 2 imports from module 1 and module 1 from module 2.
Functions ==
    ( "nop"    :> new_internal_function(FunctionType(0, 0), 0, <<>>, 1)
   @@ "id"     :> new_internal_function(FunctionType(1, 1), 0, <<Local(1)>>, 1)
   @@ "pair"   :> new_internal_function(FunctionType(0, 2), 0,
                                        <<Const(1), Const(2)>>, 1)
   @@ "two"    :> new_internal_function(FunctionType(2, 0), 1, <<>>, 1)
   @@ "div0"   :> new_internal_function(FunctionType(1, 1), 0,
                                        <<Local(1), Unreachable>>, 1)
   @@ "big"    :> new_internal_function(FunctionType(1, 0), MaxLocals, <<>>, 1)
   @@ "rec"    :> new_internal_function(FunctionType(1, 1), 0,
                                        <<Local(1), Call("rec")>>, 1)
   @@ "ping"   :> new_internal_function(FunctionType(1, 1), 0,
                                        <<Local(1), Call("x_pong")>>, 1)
   @@ "bad1"   :> new_internal_function(FunctionType(2, 1), 0,
                                        <<Local(1), Local(2), Call("xx_id")>>, 1)
   @@ "pong"   :> new_internal_function(FunctionType(1, 1), 0,
                                        <<Local(1), Call("x_id")>>, 2)
   @@ "bad2"   :> new_internal_function(FunctionType(2, 1), 0,
                                        <<Local(1), Local(2), Call("xx_id")>>, 2)
   @@ "x_id"   :> new_external_function(FunctionType(1, 1), "id")
   @@ "xx_id"  :> new_external_function(FunctionType(2, 1), "x_id")
   @@ "x_pong" :> new_external_function(FunctionType(1, 1), "pong")
   \* r is an Rc<dyn Function>: two function values that forward to each other
   @@ "loop_a" :> new_external_function(FunctionType(1, 1), "loop_b")
   @@ "loop_b" :> new_external_function(FunctionType(1, 1), "loop_a") )

FnIds == DOMAIN Functions

VARIABLES
    function_table  \* the function values: function id -> VMFunction

IsInternal(f) == function_table[f].function_item.tag = "Internal"
IsExternal(f) == function_table[f].function_item.tag = "External"
ModuleOf(f) == function_table[f].function_item.vm_module

\* get_function_type answering for the function an External one refers to
get_function_type_delegated(f) ==
    IF function_table[f].function_item.tag = "External"
    THEN function_table[function_table[f].function_item.r].function_type
    ELSE function_table[f].function_type

\* fn get_function_type(&self) -> FunctionType
get_function_type(f) == function_table[f].function_type

VARIABLES
    strong,         \* module -> strong count of its Rc (0: destroyed)
    borrow,         \* module -> TRUE while a RefMut of its RefCell is alive
    operand_stack,  \* module -> its operand stack, bottom first
    frames,         \* the eval calls in progress, outermost first
    ret,            \* the value the last finished eval handed to its caller
    cur,            \* the host's current (or last) call: function and arguments
    pre,            \* operand stacks and strong counts when that call started
    fault,          \* TRUE once the interpreter trapped during that call
    again,          \* how the call before ended, if it was of the same function ("no" if not)
    owners,         \* module -> number of Rc the owners hold (function values hold Weak)
    sig             \* the last answer of get_function_type to the host, and for which function

vars == <<strong, borrow, operand_stack, frames, ret, cur, pre, fault, again, owners, function_table, sig>>

\* ---- results of eval ----
NoRet == [kind |-> "None", vals |-> <<>>, msg |-> ""]
Ok(vs) == [kind |-> "Ok", vals |-> vs, msg |-> ""]
ArityMsg == "the number of arguments and parameters do not match"
InvalidOperation(msg) == [kind |-> "InvalidOperation", vals |-> <<>>, msg |-> msg]
Panicked(msg) == [kind |-> "Panic", vals |-> <<>>, msg |-> msg]

\* ---- operand stack ----
\* push_values: the values in slice order, the last one ends on top
push_values(stack, values) == stack \o values

\* pop_values: the top `count` values, the one popped first at the highest
\* index; a stack holding fewer than `count` values cannot serve the pop
pop_values(stack, count) ==
    IF count > Len(stack)
    THEN [ok |-> FALSE, stack |-> stack, values |-> <<>>]
    ELSE [ok |-> TRUE, stack |-> SubSeq(stack, 1, Len(stack) - count),
          values |-> SubSeq(stack, Len(stack) - count + 1, Len(stack))]

\* ---- calling convention ----
\* push_args with the count checked after the push
push_args_late(stack, function_type, args) ==
    IF Len(args) # Len(function_type.params)
    THEN [ok |-> FALSE, err |-> InvalidOperation(ArityMsg),
          stack |-> push_values(stack, args)]
    ELSE [ok |-> TRUE, err |-> NoRet, stack |-> push_values(stack, args)]

\* push_args pushing the last argument first
push_args_rev(stack, function_type, args) ==
    IF Len(args) # Len(function_type.params)
    THEN [ok |-> FALSE, err |-> InvalidOperation(ArityMsg), stack |-> stack]
    ELSE [ok |-> TRUE, err |-> NoRet,
          stack |-> push_values(stack, [i \in 1..Len(args) |-> args[Len(args) + 1 - i]])]

\* pop_results counting the parameters instead of the results
pop_results_params(stack, function_type) ==
    LET count == Len(function_type.params)
    IN pop_values(stack, count)

push_args(stack, function_type, args) ==
    IF Len(args) # Len(function_type.params)
    THEN [ok |-> FALSE, err |-> InvalidOperation(ArityMsg), stack |-> stack]
    ELSE [ok |-> TRUE, err |-> NoRet, stack |-> push_values(stack, args)]

\* pop_results reading the results and leaving them on the stack
pop_results_peek(stack, function_type) ==
    LET count == Len(function_type.results)
        p == pop_values(stack, count)
    IN [p EXCEPT !.stack = stack]

\* pop_results popping one value too many
pop_results_more(stack, function_type) ==
    LET count == Len(function_type.results) + 1
    IN pop_values(stack, count)

pop_results(stack, function_type) ==
    LET count == Len(function_type.results)
    IN pop_values(stack, count)

\* ---- the eval calls in progress ----
\* One frame per eval in progress.  pc is the place reached in eval:
\* "eval" (entered), "push", "frame", "run", "wait" (do_loop is inside a call
\* instruction), "pop" for an Internal function; "eval", "fwait" (inside
\* r.eval(args)) for an External one.  held: this eval owns the upgraded Rc
\* and the RefMut.  base: the module's stack when the RefMut was taken.
\* steps: the calls eval_internal_function has made and got back from, in
\* order ("push", "frame", "run"; the last one, "pop", ends the eval).
NewFrame(f, args) ==
    [fn |-> f, args |-> args, pc |-> "eval", ip |-> 1, locals |-> <<>>,
     base |-> <<>>, trapped |-> "no", held |-> FALSE, steps |-> <<>>]

Top == frames[Len(frames)]
SetTop(t) == [frames EXCEPT ![Len(frames)] = t]
Pop == SubSeq(frames, 1, Len(frames) - 1)
Running == frames # <<>>
Snapshot == [stack |-> operand_stack, strong |-> strong]

\* the host's call has finished and its outcome is in ret
Done == ~Running /\ ret.kind # "None"

NoSig == [fn |-> "", type |-> FunctionType(0, 0)]

Init ==
    /\ strong = [m \in Modules |-> 1]
    /\ borrow = [m \in Modules |-> FALSE]
    /\ operand_stack = [m \in Modules |-> <<>>]
    /\ frames = <<>>
    /\ ret = NoRet
    /\ cur = [fn |-> "nop", args |-> <<>>]
    /\ pre = [stack |-> [m \in Modules |-> <<>>], strong |-> [m \in Modules |-> 1]]
    /\ fault = FALSE
    /\ again = "no"
    /\ owners = [m \in Modules |-> 1]
    /\ function_table = Functions
    /\ sig = NoSig

\* ---- the host ----
\* The host (or a test) calls eval on a function value it holds: any
\* function once it has taken the outcome of the call before, or the
\* function of that call once more.
HostCall ==
    \E f \in FnIds, args \in ArgLists :
        /\ ~Running
        /\ ret.kind # "None" => f = cur.fn
        /\ \A m \in Modules : Len(operand_stack[m]) <= MaxStack
        /\ frames' = <<NewFrame(f, args)>>
        /\ ret' = NoRet
        /\ cur' = [fn |-> f, args |-> args]
        /\ pre' = Snapshot
        /\ fault' = FALSE
        /\ again' = IF cur.fn = f /\ ret.kind # "None" THEN ret.kind ELSE "no"
        /\ sig' = NoSig
        /\ UNCHANGED <<strong, borrow, operand_stack, owners, function_table>>

\* the record of the last call is dropped
Forget ==
    /\ ret' = NoRet
    /\ cur' = [fn |-> "nop", args |-> <<>>]
    /\ pre' = [stack |-> [m \in Modules |-> <<>>], strong |-> [m \in Modules |-> 1]]
    /\ fault' = FALSE
    /\ again' = "no"

\* The host takes the outcome of the call that has finished.
HostTake ==
    /\ Done
    /\ Forget
    /\ UNCHANGED <<strong, borrow, operand_stack, frames, owners, function_table, sig>>

\* Another owner clones the Rc of a live module instance.
HostClone ==
    \E m \in Modules :
        /\ ~Running
        /\ strong[m] > 0
        /\ strong[m] < Cardinality(Owners)
        /\ strong' = [strong EXCEPT ![m] = @ + 1]
        /\ owners' = [owners EXCEPT ![m] = @ + 1]
        /\ Forget
        /\ UNCHANGED <<borrow, operand_stack, frames, function_table, sig>>

\* An owner drops its Rc; the last drop destroys the module instance and its
\* operand stack.  Function values (Weak) are not owners.
HostRelease ==
    \E m \in Modules :
        /\ ~Running
        /\ strong[m] > 0
        /\ strong' = [strong EXCEPT ![m] = @ - 1]
        /\ owners' = [owners EXCEPT ![m] = @ - 1]
        /\ operand_stack' = IF strong[m] = 1
                            THEN [operand_stack EXCEPT ![m] = <<>>]
                            ELSE operand_stack
        /\ Forget
        /\ UNCHANGED <<borrow, frames, function_table, sig>>

\* The host reads a function's signature: get_function_type(&self) clones
\* function_type.
HostGetFunctionType ==
    \E f \in FnIds :
        /\ ~Running
        /\ sig' = [fn |-> f, type |-> get_function_type(f)]
        /\ Forget
        /\ UNCHANGED <<strong, borrow, operand_stack, frames, owners, function_table>>

\* ---- leaving eval ----
\* Return keeping the RefMut alive
Return_leak(t, r) ==
    /\ frames' = Pop
    /\ ret' = r
    /\ borrow' = borrow
    /\ strong' = IF t.held THEN [strong EXCEPT ![ModuleOf(t.fn)] = @ - 1] ELSE strong

\* Return with the upgraded Rc kept (stored away) instead of dropped
Return_keep_rc(t, r) ==
    /\ frames' = Pop
    /\ ret' = r
    /\ borrow' = IF t.held THEN [borrow EXCEPT ![ModuleOf(t.fn)] = FALSE] ELSE borrow
    /\ strong' = strong

\* eval returns r to its caller: the frame goes, and with it the RefMut `vm`
\* and the Rc `rc` of the Internal arm.
Return(t, r) ==
    /\ frames' = Pop
    /\ ret' = r
    /\ borrow' = IF t.held THEN [borrow EXCEPT ![ModuleOf(t.fn)] = FALSE] ELSE borrow
    /\ strong' = IF t.held THEN [strong EXCEPT ![ModuleOf(t.fn)] = @ - 1] ELSE strong

\* A panic unwinds every eval in progress, dropping each RefMut and Rc.
Panic(msg) ==
    /\ frames' = <<>>
    /\ ret' = Panicked(msg)
    /\ borrow' = [m \in Modules |-> FALSE]
    /\ strong' = [m \in Modules |-> IF borrow[m] THEN strong[m] - 1 ELSE strong[m]]

UpgradeMsg == "failed to get the module instance"
BorrowMsg == "already borrowed: BorrowMutError"
TrapMsg == "interpreter trap"
UnderflowMsg == "operand stack underflow"

\* ---- Function::eval ----
\* the Internal arm reporting a destroyed module as a recoverable error
EvalInternal_recoverable ==
    /\ Running
    /\ Top.pc = "eval"
    /\ IsInternal(Top.fn)
    /\ LET m == ModuleOf(Top.fn)
       IN IF strong[m] = 0
          THEN Return(Top, InvalidOperation(UpgradeMsg)) /\ UNCHANGED operand_stack
          ELSE IF borrow[m]
          THEN Panic(BorrowMsg) /\ UNCHANGED operand_stack
          ELSE /\ strong' = [strong EXCEPT ![m] = @ + 1]
               /\ borrow' = [borrow EXCEPT ![m] = TRUE]
               /\ frames' = SetTop([Top EXCEPT !.pc = "push", !.held = TRUE,
                                               !.base = operand_stack[m]])
               /\ UNCHANGED <<operand_stack, ret>>
    /\ UNCHANGED <<cur, pre, fault, again, owners, function_table, sig>>

\* the External arm checking the arguments against its own declared type
EvalExternal_checked ==
    /\ Running
    /\ Top.pc = "eval"
    /\ IsExternal(Top.fn)
    /\ IF Len(Top.args) # Len(function_table[Top.fn].function_type.params)
       THEN Return(Top, InvalidOperation(ArityMsg))
       ELSE /\ Len(frames) < MaxDepth
            /\ frames' = Append(SetTop([Top EXCEPT !.pc = "fwait"]),
                                NewFrame(function_table[Top.fn].function_item.r, Top.args))
            /\ UNCHANGED <<strong, borrow, ret>>
    /\ UNCHANGED <<operand_stack, cur, pre, fault, again, owners, function_table, sig>>

\* the External arm wrapping the error of the referenced function
ExternalReturn_wrapped ==
    /\ Running
    /\ Top.pc = "fwait"
    /\ ret.kind # "None"
    /\ Return(Top, IF ret.kind = "InvalidOperation"
                   THEN InvalidOperation("external function failed")
                   ELSE ret)
    /\ UNCHANGED <<operand_stack, cur, pre, fault, again, owners, function_table, sig>>

\* the Internal arm comparing the argument count before it resolves the
\* module
EvalInternal_checkfirst ==
    /\ Running
    /\ Top.pc = "eval"
    /\ IsInternal(Top.fn)
    /\ LET m == ModuleOf(Top.fn)
       IN IF Len(Top.args) # Len(get_function_type(Top.fn).params)
          THEN Return(Top, InvalidOperation(ArityMsg)) /\ UNCHANGED operand_stack
          ELSE IF strong[m] = 0
          THEN Panic(UpgradeMsg) /\ UNCHANGED operand_stack
          ELSE IF borrow[m]
          THEN Panic(BorrowMsg) /\ UNCHANGED operand_stack
          ELSE /\ strong' = [strong EXCEPT ![m] = @ + 1]
               /\ borrow' = [borrow EXCEPT ![m] = TRUE]
               /\ frames' = SetTop([Top EXCEPT !.pc = "push", !.held = TRUE,
                                               !.base = operand_stack[m]])
               /\ UNCHANGED <<operand_stack, ret>>
    /\ UNCHANGED <<cur, pre, fault, again, owners, function_table, sig>>

\* The Internal arm up to the call of eval_internal_function:
\* vm_module.upgrade(), then rc.borrow_mut().
EvalInternal ==
    /\ Running
    /\ Top.pc = "eval"
    /\ IsInternal(Top.fn)
    /\ LET m == ModuleOf(Top.fn)
       IN IF strong[m] = 0
          THEN Panic(UpgradeMsg) /\ UNCHANGED operand_stack
          ELSE IF borrow[m]
          THEN Panic(BorrowMsg) /\ UNCHANGED operand_stack
          ELSE /\ strong' = [strong EXCEPT ![m] = @ + 1]
               /\ borrow' = [borrow EXCEPT ![m] = TRUE]
               /\ frames' = SetTop([Top EXCEPT !.pc = "push", !.held = TRUE,
                                               !.base = operand_stack[m]])
               /\ UNCHANGED <<operand_stack, ret>>
    /\ UNCHANGED <<cur, pre, fault, again, owners, function_table, sig>>

\* the External arm forwarding to the function value itself
EvalExternal_self ==
    /\ Running
    /\ Top.pc = "eval"
    /\ IsExternal(Top.fn)
    /\ Len(frames) < MaxDepth
    /\ frames' = Append(SetTop([Top EXCEPT !.pc = "fwait"]),
                        NewFrame(Top.fn, Top.args))
    /\ UNCHANGED <<strong, borrow, operand_stack, ret, cur, pre, fault, again, owners, function_table, sig>>

\* The External arm: r.as_ref().eval(args).  Each forwarding is a nested
\* call; nothing bounds the nesting but the call stack.
EvalExternal ==
    /\ Running
    /\ Top.pc = "eval"
    /\ IsExternal(Top.fn)
    /\ Len(frames) < MaxDepth
    /\ frames' = Append(SetTop([Top EXCEPT !.pc = "fwait"]),
                        NewFrame(function_table[Top.fn].function_item.r, Top.args))
    /\ UNCHANGED <<strong, borrow, operand_stack, ret, cur, pre, fault, again, owners, function_table, sig>>

\* The External arm returns what r.eval(args) returned.
ExternalReturn ==
    /\ Running
    /\ Top.pc = "fwait"
    /\ ret.kind # "None"
    /\ Return(Top, ret)
    /\ UNCHANGED <<operand_stack, cur, pre, fault, again, owners, function_table, sig>>

\* ---- eval_internal_function ----
\* push_args(...) with its result dropped instead of propagated by `?`
PushArgs_unchecked ==
    /\ Running
    /\ Top.pc = "push"
    /\ LET m == ModuleOf(Top.fn)
           p == push_args(operand_stack[m], get_function_type(Top.fn), Top.args)
       IN /\ operand_stack' = [operand_stack EXCEPT ![m] = p.stack]
          /\ frames' = SetTop([Top EXCEPT !.pc = "frame", !.steps = Append(@, "push")])
          /\ UNCHANGED <<strong, borrow, ret>>
    /\ UNCHANGED <<cur, pre, fault, again, owners, function_table, sig>>

\* push_args(vm_module, function_type, args)?
PushArgs ==
    /\ Running
    /\ Top.pc = "push"
    /\ LET m == ModuleOf(Top.fn)
           p == push_args(operand_stack[m], get_function_type(Top.fn), Top.args)
       IN IF p.ok
          THEN /\ operand_stack' = [operand_stack EXCEPT ![m] = p.stack]
               /\ frames' = SetTop([Top EXCEPT !.pc = "frame", !.steps = Append(@, "push")])
               /\ UNCHANGED <<strong, borrow, ret>>
          ELSE /\ operand_stack' = [operand_stack EXCEPT ![m] = p.stack]
               /\ Return(Top, p.err)
    /\ UNCHANGED <<cur, pre, fault, again, owners, function_table, sig>>

\* ---- the interpreter, as eval_internal_function uses it ----
\* A trap inside call_internal_function or do_loop.  Neither call's outcome
\* is looked at by eval_internal_function, so a trap either unwinds as a
\* panic or is a returned value that is dropped; how: "panic" or "dropped".
\* Dropped, the frame is marked, the call `where` ("frame" or "run") has
\* returned, and control goes on to `pc`.
Trap(how, where, pc) ==
    /\ fault' = TRUE
    /\ IF how = "panic"
       THEN Panic(TrapMsg)
       ELSE /\ frames' = SetTop([Top EXCEPT !.trapped = where, !.pc = pc,
                                            !.steps = Append(@, where)])
            /\ UNCHANGED <<strong, borrow, ret>>

TrapOutcomes == {"panic", "dropped"}

\* begin a call frame: a locals region of the parameters and the declared
\* locals; the parameters are popped off the operand stack, the value on
\* top being the last parameter.
bind_locals(stack, function_type, local_groups) ==
    LET n == Len(function_type.params)
        p == pop_values(stack, n)
    IN [stack |-> p.stack,
        locals |-> p.values \o [i \in 1..local_groups |-> 0]]

\* interpreter::call_internal_function(vm_module, function_type, local_groups, expression)
CallInternalFunction ==
    /\ Running
    /\ Top.pc = "frame"
    /\ LET f == function_table[Top.fn]
           m == ModuleOf(Top.fn)
           b == bind_locals(operand_stack[m], f.function_type,
                            f.function_item.local_groups)
       IN IF Len(f.function_type.params) + f.function_item.local_groups > MaxLocals
          THEN /\ \E how \in TrapOutcomes : Trap(how, "frame", "run")
               /\ UNCHANGED operand_stack
          ELSE /\ operand_stack' = [operand_stack EXCEPT ![m] = b.stack]
               /\ frames' = SetTop([Top EXCEPT !.pc = "run", !.ip = 1,
                                               !.locals = b.locals,
                                               !.steps = Append(@, "frame")])
               /\ UNCHANGED <<strong, borrow, ret, fault>>
    /\ UNCHANGED <<cur, pre, again, owners, function_table, sig>>

\* vm_module.do_loop(): one instruction of the running frame at a time
Body(t) == function_table[t.fn].function_item.expression
AtInstr(op) ==
    /\ Running
    /\ Top.pc = "run"
    /\ Top.trapped = "no"
    /\ Top.ip <= Len(Body(Top))
    /\ Body(Top)[Top.ip].op = op
Instr == Body(Top)[Top.ip]

DoLoopConst ==
    /\ AtInstr("const")
    /\ operand_stack' = [operand_stack EXCEPT
                           ![ModuleOf(Top.fn)] = push_values(@, <<Instr.v>>)]
    /\ frames' = SetTop([Top EXCEPT !.ip = @ + 1])
    /\ UNCHANGED <<strong, borrow, ret, cur, pre, fault, again, owners, function_table, sig>>

DoLoopLocal ==
    /\ AtInstr("local")
    /\ operand_stack' = [operand_stack EXCEPT
                           ![ModuleOf(Top.fn)] = push_values(@, <<Top.locals[Instr.v]>>)]
    /\ frames' = SetTop([Top EXCEPT !.ip = @ + 1])
    /\ UNCHANGED <<strong, borrow, ret, cur, pre, fault, again, owners, function_table, sig>>

DoLoopTrap ==
    /\ AtInstr("trap")
    /\ \E how \in TrapOutcomes : Trap(how, "run", "pop")
    /\ UNCHANGED <<operand_stack, cur, pre, again, owners, function_table, sig>>

\* a call instruction: the callee's declared parameter count of values is
\* popped and handed to the callee's eval
DoLoopCall ==
    /\ AtInstr("call")
    /\ LET m == ModuleOf(Top.fn)
           n == Len(get_function_type(Instr.f).params)
           p == pop_values(operand_stack[m], n)
       IN /\ operand_stack' = [operand_stack EXCEPT ![m] = p.stack]
          /\ frames' = Append(SetTop([Top EXCEPT !.pc = "wait"]),
                              NewFrame(Instr.f, p.values))
    /\ UNCHANGED <<strong, borrow, ret, cur, pre, fault, again, owners, function_table, sig>>

\* the callee returned Ok: its results go on the caller's operand stack
DoLoopCallOk ==
    /\ Running
    /\ Top.pc = "wait"
    /\ ret.kind = "Ok"
    /\ operand_stack' = [operand_stack EXCEPT
                           ![ModuleOf(Top.fn)] = push_values(@, ret.vals)]
    /\ frames' = SetTop([Top EXCEPT !.pc = "run", !.ip = @ + 1])
    /\ ret' = NoRet
    /\ UNCHANGED <<strong, borrow, cur, pre, fault, again, owners, function_table, sig>>

\* the callee returned an error: the calling frame traps
DoLoopCallErr ==
    /\ Running
    /\ Top.pc = "wait"
    /\ ret.kind = "InvalidOperation"
    /\ \E how \in TrapOutcomes :
          /\ fault' = TRUE
          /\ IF how = "panic"
             THEN Panic(TrapMsg)
             ELSE /\ frames' = SetTop([Top EXCEPT !.trapped = "run", !.pc = "pop",
                                                  !.steps = Append(@, "run")])
                  /\ ret' = NoRet
                  /\ UNCHANGED <<strong, borrow>>
    /\ UNCHANGED <<operand_stack, cur, pre, again, owners, function_table, sig>>

\* do_loop returns: the frame's instructions are done (or a dropped trap
\* left no frame to run)
DoLoopEnd ==
    /\ Running
    /\ Top.pc = "run"
    /\ Top.trapped # "no" \/ Top.ip > Len(Body(Top))
    /\ frames' = SetTop([Top EXCEPT !.pc = "pop", !.steps = Append(@, "run")])
    /\ UNCHANGED <<strong, borrow, operand_stack, ret, cur, pre, fault, again, owners, function_table, sig>>

\* Ok(pop_results(vm_module, function_type)); popping more values than the
\* stack holds is fatal.
PopResults ==
    /\ Running
    /\ Top.pc = "pop"
    /\ LET m == ModuleOf(Top.fn)
           ft == get_function_type(Top.fn)
           p == pop_results(operand_stack[m], ft)
       IN IF ~p.ok
          THEN Panic(UnderflowMsg) /\ UNCHANGED operand_stack
          ELSE /\ operand_stack' = [operand_stack EXCEPT ![m] = p.stack]
               /\ Return(Top, Ok(p.values))
    /\ UNCHANGED <<cur, pre, fault, again, owners, function_table, sig>>

Next ==
    \/ HostCall
    \/ HostTake
    \/ HostClone
    \/ HostRelease
    \/ HostGetFunctionType
    \/ EvalInternal
    \/ EvalExternal
    \/ ExternalReturn
    \/ PushArgs
    \/ CallInternalFunction
    \/ DoLoopConst
    \/ DoLoopLocal
    \/ DoLoopTrap
    \/ DoLoopCall
    \/ DoLoopCallOk
    \/ DoLoopCallErr
    \/ DoLoopEnd
    \/ PopResults

Spec == Init /\ [][Next]_vars

\* the steps of an eval in progress
EvalSteps ==
    \/ EvalInternal
    \/ EvalExternal
    \/ ExternalReturn
    \/ PushArgs
    \/ CallInternalFunction
    \/ DoLoopConst
    \/ DoLoopLocal
    \/ DoLoopTrap
    \/ DoLoopCall
    \/ DoLoopCallOk
    \/ DoLoopCallErr
    \/ DoLoopEnd
    \/ PopResults

\* eval is an ordinary synchronous call: once entered, it keeps executing.
FairSpec == Spec /\ WF_vars(EvalSteps)

\* ======================= properties =======================
RECURSIVE Target(_)
\* the Internal function an External chain ends in
Target(f) == IF IsInternal(f) THEN f ELSE Target(function_table[f].function_item.r)
Params(f) == Len(get_function_type(f).params)
Results(f) == Len(get_function_type(f).results)
Mismatch(f, args) == Len(args) # Params(f)

\* C1 as stated: every call of an Internal function with an argument count
\* other than its parameter count returns InvalidOperation and leaves every
\* operand stack as it was.
C1_ArityAlwaysInvalidOperation ==
    (Done /\ IsInternal(cur.fn) /\ Mismatch(cur.fn, cur.args)) =>
        (ret = InvalidOperation(ArityMsg) /\ operand_stack = pre.stack)

C1_Step ==
    (Running /\ IsInternal(Top.fn) /\ Mismatch(Top.fn, Top.args)) =>
        LET m == ModuleOf(Top.fn)
        IN /\ operand_stack' = operand_stack
           /\ Top.pc \in {"eval", "push"}
           /\ (Top.pc = "eval" /\ strong[m] = 0) =>
                  (frames' = <<>> /\ ret' = Panicked(UpgradeMsg))
           /\ (Top.pc = "eval" /\ strong[m] > 0 /\ borrow[m]) =>
                  (frames' = <<>> /\ ret' = Panicked(BorrowMsg))
           /\ (Top.pc = "eval" /\ strong[m] > 0 /\ ~borrow[m]) =>
                  (frames' = SetTop([Top EXCEPT !.pc = "push", !.held = TRUE,
                                                !.base = operand_stack[m]]))
           /\ Top.pc = "push" =>
                  (frames' = Pop /\ ret' = InvalidOperation(ArityMsg))

\* C1, amended: an eval of an Internal function with an argument count other
\* than its parameter count never changes an operand stack and never gets
\* past push_args; it returns InvalidOperation when the owning module is
\* alive and not already mutably borrowed, and ends in a panic when the
\* module is destroyed or already borrowed.
C1_ArityEnforced == [][C1_Step]_vars

\* C1 witness: a mismatched call on a live module with a non-empty stack
\* came back as InvalidOperation with the stack as before.
C1_Witness ==
    /\ Done
    /\ IsInternal(cur.fn)
    /\ Mismatch(cur.fn, cur.args)
    /\ pre.stack[ModuleOf(cur.fn)] # <<>>
    /\ ret = InvalidOperation(ArityMsg)
    /\ operand_stack = pre.stack

\* C2: with matching counts push_args puts the arguments on top of the
\* stack found at entry, argument 0 deepest and the last one on top, and the
\* call frame binds parameter i to args[i].
C2_ArgumentOrder ==
    \A i \in 1..Len(frames) :
        LET t == frames[i]
            m == ModuleOf(t.fn)
        IN IsInternal(t.fn) =>
            /\ t.pc = "frame" =>
                  /\ ~Mismatch(t.fn, t.args)
                  /\ Len(operand_stack[m]) = Len(t.base) + Len(t.args)
                  /\ \A k \in 1..Len(t.base) : operand_stack[m][k] = t.base[k]
                  /\ \A k \in 1..Len(t.args) :
                        operand_stack[m][Len(t.base) + k] = t.args[k]
            /\ (t.pc \in {"run", "wait", "pop"} /\ t.trapped # "frame") =>
                  \A k \in 1..Len(t.args) : t.locals[k] = t.args[k]

\* C2 witness: two(1, 2) runs above a non-empty stack with parameter 0 = 1
\* and parameter 1 = 2.
C2_Witness ==
    /\ Running
    /\ Top.fn = "two"
    /\ Top.pc = "run"
    /\ Top.base # <<>>
    /\ Top.args = <<1, 2>>
    /\ Top.locals[1] = 1
    /\ Top.locals[2] = 2

C3_Step ==
    (Running /\ Top.pc = "pop" /\ Top.trapped = "no") =>
        LET m == ModuleOf(Top.fn)
        IN /\ frames' = Pop
           /\ ret'.kind = "Ok"
           /\ Len(ret'.vals) = Results(Top.fn)
           /\ operand_stack[m] = operand_stack'[m] \o ret'.vals
           /\ \A o \in Modules \ {m} : operand_stack'[o] = operand_stack[o]

C3_PairExample ==
    (Done /\ cur.fn = "pair" /\ cur.args = <<>> /\ pre.strong[ModuleOf("pair")] > 0) =>
        (ret = Ok(<<1, 2>>) /\ operand_stack = pre.stack)

\* C3: once the call frame has completed, pop_results takes exactly
\* len(results) values off the top of the stack and returns them in the
\* order they were pushed (the top of the stack is the last element); a body
\* pushing 1 then 2 yields [1, 2].
C3_ResultOrder == [][C3_Step]_vars /\ [](C3_PairExample)

\* C3 witness: pair() returned [1, 2] and the values below them remain.
C3_Witness ==
    /\ Done
    /\ cur.fn = "pair"
    /\ pre.stack[ModuleOf("pair")] # <<>>
    /\ ret = Ok(<<1, 2>>)
    /\ operand_stack = pre.stack

\* C4 as stated: an eval of an Internal function entered while an enclosing
\* eval holds the owning module acquires access and completes; it never
\* fails on the borrow.
C4_ReentrantCompletes == ~(ret.kind = "Panic" /\ ret.msg = BorrowMsg)

\* C5 as stated: a call during which the interpreter trapped returns an
\* error of a kind other than InvalidOperation; it returns neither Ok nor
\* InvalidOperation, and it does not end in a panic.
C5_FaultsPropagate ==
    (Done /\ fault) => ret.kind \notin {"Ok", "InvalidOperation", "Panic"}

C6_Step ==
    (Running /\ IsExternal(Top.fn)) =>
        /\ operand_stack' = operand_stack
        /\ borrow' = borrow
        /\ strong' = strong
        /\ Top.pc = "eval" =>
              frames' = Append(SetTop([Top EXCEPT !.pc = "fwait"]),
                               NewFrame(function_table[Top.fn].function_item.r, Top.args))
        /\ Top.pc = "fwait" => (frames' = Pop /\ ret' = ret)

\* what a direct call id(args) yields on a live module
C6_IdOutcome ==
    (Done /\ Target(cur.fn) = "id" /\ pre.strong[ModuleOf("id")] > 0) =>
        /\ operand_stack = pre.stack
        /\ ret = IF Len(cur.args) = 1 THEN Ok(cur.args)
                 ELSE InvalidOperation(ArityMsg)

\* C6: eval on an External function hands the same arguments to exactly the
\* referenced function, returns exactly what that returned, and touches no
\* operand stack or borrow itself; so a call through a wrapper of id ends as
\* the direct call of id with the same arguments does.
C6_ExternalTransparent == [][C6_Step]_vars /\ [](C6_IdOutcome)

\* C6 witness: id called through two wrappers returned its argument.
C6_Witness ==
    /\ Done
    /\ cur.fn = "xx_id"
    /\ cur.args = <<2>>
    /\ ret = Ok(<<2>>)
    /\ operand_stack = pre.stack

\* C7: an InvalidOperation raised by the Internal function at the end of an
\* External chain reaches the host with the kind and message push_args gave
\* it, and every operand stack is as before the call.
C7_ErrorThroughImports ==
    /\ ret.kind = "InvalidOperation" => ret = InvalidOperation(ArityMsg)
    /\ (ret.kind = "InvalidOperation"
        /\ \A i \in 1..Len(frames) : IsExternal(frames[i].fn)) =>
            operand_stack = pre.stack
    /\ (Done /\ IsExternal(cur.fn) /\ Mismatch(Target(cur.fn), cur.args)
        /\ pre.strong[ModuleOf(Target(cur.fn))] > 0) =>
            (ret = InvalidOperation(ArityMsg) /\ operand_stack = pre.stack)

\* C7 witness: the error came back through a chain of two External functions
\* above a non-empty stack.
C7_Witness ==
    /\ Done
    /\ cur.fn = "xx_id"
    /\ pre.stack[ModuleOf("id")] # <<>>
    /\ ret = InvalidOperation(ArityMsg)
    /\ operand_stack = pre.stack

\* C8: an eval of an Internal function whose module is destroyed ends in the
\* panic of the failed upgrade: no frame of it gets to push, begin-frame, run
\* or pop, and the host's call of it (directly or through External
\* wrappers) neither returns Ok nor an error.
C8_UnreachableModuleFatal ==
    /\ \A i \in 1..Len(frames) :
          (IsInternal(frames[i].fn) /\ frames[i].pc # "eval") =>
              strong[ModuleOf(frames[i].fn)] > 0
    /\ (Done /\ pre.strong[ModuleOf(Target(cur.fn))] = 0) =>
          (ret = Panicked(UpgradeMsg) /\ operand_stack = pre.stack)

\* C8 witness: a call with matching arguments on a destroyed module panicked.
C8_Witness ==
    /\ Done
    /\ IsInternal(cur.fn)
    /\ ~Mismatch(cur.fn, cur.args)
    /\ pre.strong[ModuleOf(cur.fn)] = 0
    /\ ret = Panicked(UpgradeMsg)

HeldFrames(m) == {i \in 1..Len(frames) : frames[i].held /\ ModuleOf(frames[i].fn) = m}

\* C9: an Internal eval holds the module's RefMut from before push_args
\* until it leaves (every frame past the entry holds it, and no two frames
\* hold the same module), and a module is borrowed only while such a frame
\* exists: when no call is in progress no module is borrowed, whether the
\* last call returned Ok, InvalidOperation or panicked.
C9_ExclusiveScoped ==
    /\ \A i \in 1..Len(frames) :
          frames[i].held <=> (IsInternal(frames[i].fn) /\ frames[i].pc # "eval")
    /\ \A m \in Modules :
          /\ Cardinality(HeldFrames(m)) <= 1
          /\ borrow[m] <=> HeldFrames(m) # {}
          /\ borrow[m] => strong[m] > 0

\* C9 witness: right after a call failed with InvalidOperation, a call of the
\* same function with corrected arguments has acquired the module.
C9_Witness ==
    /\ Running
    /\ again = "InvalidOperation"
    /\ Top.pc = "push"
    /\ Top.held
    /\ ~Mismatch(Top.fn, Top.args)
    /\ borrow[ModuleOf(Top.fn)]

\* C10: every call of a () -> () function on a live module, whatever calls
\* came before and in which the interpreter does not trap, returns the
\* empty result and leaves every operand stack as it was.
C10_ZeroArityRepeatable ==
    (Done /\ IsInternal(cur.fn) /\ Params(cur.fn) = 0 /\ Results(cur.fn) = 0
     /\ cur.args = <<>> /\ pre.strong[ModuleOf(cur.fn)] > 0 /\ ~fault) =>
        (ret = Ok(<<>>) /\ operand_stack = pre.stack)

\* C10 witness: nop() returned [] right after nop() had returned [], above a
\* non-empty stack.
C10_Witness ==
    /\ Done
    /\ cur.fn = "nop"
    /\ again = "Ok"
    /\ pre.stack[ModuleOf("nop")] # <<>>
    /\ ret = Ok(<<>>)
    /\ operand_stack = pre.stack

InternalFunctionsOf(m) == {f \in FnIds : IsInternal(f) /\ ModuleOf(f) = m}

\* C11: the Internal functions pointing at a module add nothing to its
\* strong count: the count is the owners' Rc plus the one Rc an eval in
\* progress on the module has upgraded, it is the owners' alone whenever no
\* call is in progress, and a module whose owners have all released it is
\* destroyed (count 0, no operand stack), however many Internal functions
\* point at it and whatever calls of them came before.
C11_NoLifetimeExtension ==
    \A m \in Modules :
        /\ InternalFunctionsOf(m) # {}
        /\ strong[m] = owners[m] + Cardinality(HeldFrames(m))
        /\ ~Running => strong[m] = owners[m]
        /\ owners[m] = 0 => (strong[m] = 0 /\ operand_stack[m] = <<>>)

\* C11 witness: a function of module 1 is being evaluated after the last
\* owner released the module: the module is gone.
C11_Witness ==
    /\ Running
    /\ IsInternal(Top.fn)
    /\ Top.pc = "eval"
    /\ Cardinality(InternalFunctionsOf(ModuleOf(Top.fn))) > 1
    /\ owners[ModuleOf(Top.fn)] = 0
    /\ strong[ModuleOf(Top.fn)] = 0

C12_Step ==
    /\ function_table' = function_table
    /\ (sig' # sig /\ sig'.fn # "") =>
          /\ UNCHANGED <<strong, borrow, operand_stack, frames, owners>>
          /\ sig'.type = Functions[sig'.fn].function_type

\* C12: no step changes a function value (signature, local declarations,
\* instructions): the function values are always as constructed.
\* get_function_type changes neither an operand stack, a borrow, a strong
\* count nor a call in progress, and after any sequence of calls its answer
\* is the (params, results) the function was constructed with.
C12_SignatureImmutable ==
    /\ [][C12_Step]_vars
    /\ [](function_table = Functions)
    /\ [](sig.fn # "" => sig.type = Functions[sig.fn].function_type)

\* C12 witness: after calls that left a value on module 1's stack, the
\* wrapper xx_id still answers (i32, i32) -> (i32).
C12_Witness ==
    /\ sig.fn = "xx_id"
    /\ sig.type = FunctionType(2, 1)
    /\ operand_stack[1] # <<>>

\* the calls eval_internal_function has finished when it is at pc
StepsAt(pc) ==
    CASE pc \in {"eval", "push", "fwait"} -> <<>>
      [] pc = "frame" -> <<"push">>
      [] pc \in {"run", "wait"} -> <<"push", "frame">>
      [] pc = "pop" -> <<"push", "frame", "run">>

C13_Step ==
    Running =>
        /\ (IsInternal(Top.fn) /\ Len(frames') < Len(frames) /\ ret'.kind = "Ok") =>
              (Top.pc = "pop" /\ Top.steps = <<"push", "frame", "run">>)
        /\ (Top.pc = "push" /\ Mismatch(Top.fn, Top.args)) =>
              /\ frames' = Pop
              /\ ret' = InvalidOperation(ArityMsg)
              /\ operand_stack' = operand_stack
        /\ (Len(frames') = Len(frames) /\ frames'[Len(frames)].steps # Top.steps) =>
              \E step \in {"push", "frame", "run"} :
                  /\ frames'[Len(frames)].steps = Append(Top.steps, step)
                  /\ StepsAt(Top.pc) \o <<step>> = StepsAt(frames'[Len(frames)].pc)

\* C13: an eval of an Internal function makes its calls in the order
\* push_args, call_internal_function, do_loop, pop_results, each once: in
\* every state the calls a frame has finished are the prefix of that order
\* its position determines; an Internal eval returns Ok only from
\* pop_results, with the three calls before it made once each and in order;
\* and when push_args fails the eval returns InvalidOperation at once, so
\* no frame is begun, nothing is run and no result is popped.
C13_EntryProtocolOrder ==
    /\ [][C13_Step]_vars
    /\ [](\A i \in 1..Len(frames) : frames[i].steps = StepsAt(frames[i].pc))

\* C13 witness: an eval called from a running body is about to pop its
\* results, after push, frame and run.
C13_Witness ==
    /\ Len(frames) > 1
    /\ IsInternal(frames[1].fn)
    /\ frames[1].pc = "wait"
    /\ IsInternal(Top.fn)
    /\ Top.pc = "pop"
    /\ Top.trapped = "no"
    /\ Top.steps = <<"push", "frame", "run">>
    /\ Results(Top.fn) > 0

RECURSIVE Reach(_, _)
\* the function value eval has reached after at most n forwardings from f
Reach(f, n) ==
    IF n = 0 \/ IsInternal(f) THEN f
    ELSE Reach(function_table[f].function_item.r, n - 1)
\* f's chain of references ends in an Internal function
Acyclic(f) == IsInternal(Reach(f, Cardinality(FnIds)))
\* the number of External function values before that Internal function
ChainLen(f) ==
    CHOOSE n \in 0..Cardinality(FnIds) :
        /\ IsInternal(Reach(f, n))
        /\ \A k \in 0..(n - 1) : IsExternal(Reach(f, k))

\* during a host call of an External function, frame i is the eval reached
\* by i - 1 forwardings, with the host's arguments; the frames below the
\* Internal function are all forwarding
C14_Chain ==
    (Running /\ IsExternal(cur.fn)) =>
        \A i \in 1..Len(frames) :
            (Acyclic(cur.fn) => i <= ChainLen(cur.fn) + 1) =>
                /\ frames[i].fn = Reach(cur.fn, i - 1)
                /\ frames[i].args = cur.args
                /\ (IsExternal(frames[i].fn) /\ i < Len(frames)) =>
                      frames[i].pc = "fwait"
                /\ (IsExternal(frames[i].fn) /\ i = Len(frames)) =>
                      \/ frames[i].pc = "eval" /\ ret.kind = "None"
                      \/ frames[i].pc = "fwait" /\ ret.kind # "None"

C14_Step ==
    /\ (Running /\ Top.pc = "fwait") => (frames' = Pop /\ ret' = ret)
    /\ (Running /\ IsExternal(cur.fn) /\ ~Acyclic(cur.fn)) =>
          (Len(frames') = Len(frames) + 1 /\ ret' = ret)

\* C14: eval of an External function whose chain of n references ends in an
\* Internal function enters that function's eval as frame n + 1, after
\* exactly n forwardings of the same arguments, every forwarding eval hands
\* back the outcome it got, unchanged, and the call finishes.  On a chain
\* that is a cycle every step is one more forwarding: no outcome is ever
\* produced and the call never finishes.
C14_DelegationTerminates ==
    /\ []C14_Chain
    /\ [][C14_Step]_vars
    /\ [](IsExternal(cur.fn) /\ ~Acyclic(cur.fn) => ~Done)
    /\ ((Running /\ IsExternal(cur.fn) /\ Acyclic(cur.fn)) ~> Done)

\* C14 witness: two forwardings (xx_id -> x_id -> id) have led into the
\* Internal function id.
C14_Witness ==
    /\ Running
    /\ cur.fn = "xx_id"
    /\ ChainLen(cur.fn) = 2
    /\ Len(frames) = 3
    /\ Top.fn = "id"
    /\ Top.pc = "push"
    /\ Top.args = cur.args

C15_Step ==
    (Running /\ IsExternal(Top.fn) /\ Top.pc = "eval") =>
        /\ Len(frames') = Len(frames) + 1
        /\ frames'[Len(frames')].args = Top.args
        /\ ret' = ret

C15_Outcome ==
    (Done /\ IsExternal(cur.fn) /\ pre.strong[ModuleOf(Target(cur.fn))] > 0) =>
        /\ ret.kind = "InvalidOperation" <=> Mismatch(Target(cur.fn), cur.args)
        /\ (Mismatch(cur.fn, cur.args) /\ ~Mismatch(Target(cur.fn), cur.args)
            /\ Target(cur.fn) = "id") => ret = Ok(cur.args)
        /\ (~Mismatch(cur.fn, cur.args) /\ Mismatch(Target(cur.fn), cur.args)) =>
              ret = InvalidOperation(ArityMsg)

\* C15: the External arm of eval never compares the arguments with the
\* function_type stored in the wrapper: whatever their count it forwards
\* them, and the host's call of a wrapper over a live module returns
\* InvalidOperation exactly when the count differs from the parameter count
\* of the Internal function the chain ends in.  So xx_id, declared with two
\* parameters over id with one, returns Ok for one argument and
\* InvalidOperation for two.
C15_ExternalIgnoresOwnSignature == [][C15_Step]_vars /\ []C15_Outcome

\* C15 witness: a call matching the wrapper's declared two parameters was
\* rejected by the referenced function.
C15_Witness ==
    /\ Done
    /\ cur.fn = "xx_id"
    /\ Len(cur.args) = 2
    /\ Params(cur.fn) = 2
    /\ Params(Target(cur.fn)) = 1
    /\ ret = InvalidOperation(ArityMsg)

\* C15 witness of the other half: a call with one argument, not the
\* wrapper's two, succeeded.
C15_WitnessAccepted ==
    /\ Done
    /\ cur.fn = "xx_id"
    /\ Len(cur.args) = 1
    /\ ret = Ok(cur.args)

C16_Step ==
    /\ (Running /\ IsInternal(Top.fn) /\ ret'.kind = "InvalidOperation"
        /\ ret.kind # "InvalidOperation") =>
          /\ Top.pc = "push"
          /\ Top.held
          /\ strong[ModuleOf(Top.fn)] > owners[ModuleOf(Top.fn)]
          /\ borrow[ModuleOf(Top.fn)]
          /\ Cardinality({i \in 1..Len(frames) :
                IsInternal(frames[i].fn) /\ frames[i].held
                /\ ModuleOf(frames[i].fn) = ModuleOf(Top.fn)}) = 1
    /\ (Running /\ IsInternal(Top.fn) /\ Top.pc = "eval"
        /\ Mismatch(Top.fn, Top.args)) =>
          LET m == ModuleOf(Top.fn)
          IN IF strong[m] = 0 THEN ret' = Panicked(UpgradeMsg) /\ frames' = <<>>
             ELSE IF borrow[m] THEN ret' = Panicked(BorrowMsg) /\ frames' = <<>>
             ELSE /\ ret' = ret
                  /\ frames'[Len(frames)].pc = "push"
                  /\ borrow'[m]

C16_Outcome ==
    (Done /\ IsInternal(cur.fn) /\ Mismatch(cur.fn, cur.args)) =>
        ret = IF pre.strong[ModuleOf(cur.fn)] = 0
              THEN Panicked(UpgradeMsg)
              ELSE InvalidOperation(ArityMsg)

\* C16: the Internal arm of eval upgrades the module reference and takes
\* the mutable borrow before push_args compares the counts.  An eval with a
\* mismatched count entered while the module is destroyed panics on the
\* upgrade, entered while the module is borrowed by a running eval it panics
\* on the borrow, and otherwise it goes on to push_args holding the borrow;
\* InvalidOperation is only ever produced by an eval at push_args that
\* holds the one borrow of its live module.
C16_CheckOrder == [][C16_Step]_vars /\ []C16_Outcome

\* C16 witness: bad1, running in module 1, called id of the same module
\* through wrappers with two arguments; the outcome was the borrow panic,
\* not InvalidOperation.
C16_Witness ==
    /\ Done
    /\ cur.fn = "bad1"
    /\ ~Mismatch(cur.fn, cur.args)
    /\ ~fault
    /\ ret = Panicked(BorrowMsg)

IsPrefix(a, b) == Len(a) <= Len(b) /\ SubSeq(b, 1, Len(a)) = a
\* the interpreter has consumed the pushed arguments of frame t and left
\* exactly the declared number of results above the stack found at entry
ResultsOnTop(t) ==
    /\ IsPrefix(t.base, operand_stack[ModuleOf(t.fn)])
    /\ Len(operand_stack[ModuleOf(t.fn)]) = Len(t.base) + Results(t.fn)

C17_Step ==
    (Running /\ IsInternal(Top.fn) /\ Top.pc = "pop" /\ ResultsOnTop(Top)) =>
        LET m == ModuleOf(Top.fn)
        IN /\ frames' = Pop
           /\ ret' = Ok(SubSeq(operand_stack[m], Len(Top.base) + 1,
                               Len(operand_stack[m])))
           /\ operand_stack' = [operand_stack EXCEPT ![m] = Top.base]

C17_Frames ==
    \A i \in 1..Len(frames) :
        (frames[i].held /\ frames[i].trapped = "no") =>
            /\ IsPrefix(frames[i].base, operand_stack[ModuleOf(frames[i].fn)])
            /\ frames[i].pc = "pop" => ResultsOnTop(frames[i])

\* C17: an eval whose interpreter run has consumed the pushed arguments and
\* left exactly the declared results on top returns those results and leaves
\* the module's stack exactly as it found it, and every other stack alone;
\* the stack found at entry stays untouched below the eval's own values
\* while it runs; so after a host call that returned Ok with no trap on the
\* way every operand stack is what it was before the call.
C17_StackPrefixPreserved ==
    /\ [][C17_Step]_vars
    /\ []C17_Frames
    /\ []((Done /\ ret.kind = "Ok" /\ ~fault) => operand_stack = pre.stack)

\* C17 witness: id returned its argument over a non-empty stack, which is
\* as before.
C17_Witness ==
    /\ Done
    /\ cur.fn = "id"
    /\ ~fault
    /\ pre.stack[ModuleOf("id")] # <<>>
    /\ ret = Ok(cur.args)
    /\ operand_stack = pre.stack

====
